---------------------------- MODULE Spec2Model ----------------------------
(***************************************************************************)
(* The drift operator of Ito's_Lemma.ipynb: drift(f, Theta, state, mu,     *)
(* sigma) computes E[df/dt] by Ito's lemma from one forward-mode           *)
(* directional derivative (jvp) and one Hessian-vector product (jvp of     *)
(* grad) per Brownian shock, and compute_Edf maps it over a batch of       *)
(* states after dynamics(x) has produced the drift and the diffusion.      *)
(*                                                                         *)
(* Numbers are exact integers.  The only non-integer operation of drift   *)
(* is the factor 0.5 of its last line, so the value drift returns is       *)
(* carried in halves: EdV holds 2 * (first_order + 0.5 * second_order).    *)
(* Arrays are jax.numpy arrays, as everything drift receives under jit and *)
(* vmap is: a vector is a sequence, a matrix the sequence of its rows.     *)
(* Python indices are 0-based and are kept so (index i reads element i+1). *)
(***************************************************************************)
EXTENDS Integers, Sequences, FiniteSets

(***************************************************************************)
(* Bounds of the model.  The notebook sets n_shocks = 100 (line 67); the   *)
(* model runs the same loop with a smaller global.                         *)
(***************************************************************************)
n_shocks == 2
MaxN == 2
MaxBatch == 2

VARIABLES f, state, mustate, sigmastate, pc, i, first_order, terms, EdV, err,
          evals, cols, batch, pending, cur, results

vars == <<f, state, mustate, sigmastate, pc, i, first_order, terms, EdV, err,
          evals, cols, batch, pending, cur, results>>

\* ------------------------------------------------------------- arithmetic

RECURSIVE SumSeq(_)
\* np.sum of a vector
SumSeq(s) == IF s = <<>> THEN 0 ELSE s[1] + SumSeq(Tail(s))

\* u @ v for two vectors of one length
Dot(u, v) == SumSeq([k \in 1..Len(u) |-> u[k] * v[k]])

\* M.T of a matrix with at least one row
Transpose(M) == [j \in 1..Len(M[1]) |-> [r \in 1..Len(M) |-> M[r][j]]]

\* a[k] for a static in-range or too large index k >= 0 of a jax array: an
\* index past the end is clamped to the last element
Index(a, k) == a[(IF k < Len(a) THEN k ELSE Len(a) - 1) + 1]

\* ----------------------------------------------------- the function f

(***************************************************************************)
(* f is any scalar function of the state (the notebook passes a stax      *)
(* network).  The model draws it from sums of these terms:                 *)
(*   sum      f(x) = Sum x_k                                               *)
(*   halfsq   f(x) = 1/2 Sum x_k^2                                         *)
(*   sqsum    f(x) = (Sum x_k)^2                                           *)
(*   cube     f(x) = Sum x_k^3                                             *)
(*   posquad  f(x) = Sum x_k^2, raising outside its domain x >= 0          *)
(*   fwdonly  f(x) = Sum x_k^2 written with a forward-only primitive       *)
(*            (lax.while_loop): jvp works, grad raises                     *)
(***************************************************************************)
Basis == {"sum", "halfsq", "sqsum", "cube", "posquad", "fwdonly"}

Funs == {<<b>> : b \in Basis} \cup
        {<<"halfsq", b>> : b \in {"sum", "sqsum", "cube", "posquad"}}

\* the tangent of one term at x in direction v: what jvp(f, (x,), (v,))[1]
\* returns for it
TermJvp(b, x, v) ==
    CASE b = "sum"     -> SumSeq(v)
      [] b = "halfsq"  -> Dot(x, v)
      [] b = "sqsum"   -> 2 * SumSeq(x) * SumSeq(v)
      [] b = "cube"    -> SumSeq([k \in 1..Len(x) |-> 3 * x[k] * x[k] * v[k]])
      [] b = "posquad" -> 2 * Dot(x, v)
      [] b = "fwdonly" -> 2 * Dot(x, v)

\* the tangent of grad of one term at x in direction v: what
\* jvp(grad(f), (x,), (v,))[1] returns for it
TermHvp(b, x, v) ==
    [k \in 1..Len(x) |->
        CASE b = "sum"     -> 0
          [] b = "halfsq"  -> v[k]
          [] b = "sqsum"   -> 2 * SumSeq(v)
          [] b = "cube"    -> 6 * x[k] * v[k]
          [] b = "posquad" -> 2 * v[k]
          [] b = "fwdonly" -> 2 * v[k]]

\* the exception one term raises when it is evaluated at x under the
\* differentiation `mode` ("jvp" or "hvp"), "none" when it raises nothing
TermRaises(b, x, mode) ==
    CASE b = "posquad" /\ (\E k \in 1..Len(x) : x[k] < 0) -> "DomainError"
      [] b = "fwdonly" /\ mode = "hvp"                   -> "ReverseModeError"
      [] OTHER                                           -> "none"

RECURSIVE Raises(_, _, _)
\* the exception f raises at x: that of its first term that raises
Raises(g, x, mode) ==
    IF g = <<>> THEN "none"
    ELSE IF TermRaises(g[1], x, mode) # "none" THEN TermRaises(g[1], x, mode)
    ELSE Raises(Tail(g), x, mode)

\* ------------------------------------------------- autodiff primitives

Ok(v) == [ok |-> TRUE, val |-> v, err |-> "none"]
Fail(e) == [ok |-> FALSE, val |-> 0, err |-> e]

\* jvp(f_flat, (x,), (v,))[1]: primal and tangent shapes are compared first,
\* then f is evaluated
jvp(g, x, v) ==
    IF Len(v) # Len(x) THEN Fail("ShapeError")
    ELSE IF Raises(g, x, "jvp") # "none" THEN Fail(Raises(g, x, "jvp"))
    ELSE Ok(SumSeq([t \in 1..Len(g) |-> TermJvp(g[t], x, v)]))

\* the mutant of hvp: the inner jvp is forgotten and grad(f)(x) is returned
hvp_NoJvp(g, x, sigma) ==
    IF Len(sigma) # Len(x) THEN Fail("ShapeError")
    ELSE IF Raises(g, x, "hvp") # "none" THEN Fail(Raises(g, x, "hvp"))
    ELSE Ok([k \in 1..Len(x) |->
               SumSeq([t \in 1..Len(g) |->
                   TermJvp(g[t], x, [r \in 1..Len(x) |-> IF r = k THEN 1 ELSE 0])])])

\* the mutant of hvp: an exception of f is caught and a zero vector stands in
hvp_Swallow(g, x, sigma) ==
    IF Len(sigma) # Len(x) THEN Fail("ShapeError")
    ELSE IF Raises(g, x, "hvp") # "none" THEN Ok([k \in 1..Len(x) |-> 0])
    ELSE Ok([k \in 1..Len(x) |->
               SumSeq([t \in 1..Len(g) |-> TermHvp(g[t], x, sigma)[k]])])

\* hvp(f, x, sigma) = jvp(grad(f), (x,), (sigma,))[1]
hvp(g, x, sigma) ==
    IF Len(sigma) # Len(x) THEN Fail("ShapeError")
    ELSE IF Raises(g, x, "hvp") # "none" THEN Fail(Raises(g, x, "hvp"))
    ELSE Ok([k \in 1..Len(x) |->
               SumSeq([t \in 1..Len(g) |-> TermHvp(g[t], x, sigma)[k]])])


\* ---------------------------------------------------------------- drift

\* sigmastate.T[k], the column the k-th pass of the loop reads
Column(sigma, k) == Index(Transpose(sigma), k)

\* the mutant of EdVof: "0.5 + second_order" for "0.5 * second_order"
EdVof_Plus(first, summands) == 2 * first + 1 + 2 * SumSeq(summands)

\* EdV = first_order + 0.5 * second_order with second_order the np.sum of the
\* summands, in halves
EdVof(first, summands) == 2 * first + SumSeq(summands)

RECURSIVE Summands(_, _, _, _)
\* the list [hvp(f_flat, state, sigma.T[k]) @ sigma.T[k] for k in range(n_shocks)]
\* from index k on; the first exception ends it
Summands(g, x, sigma, k) ==
    IF k >= n_shocks THEN Ok(<<>>)
    ELSE LET col == Column(sigma, k)
             hv  == hvp(g, x, col)
         IN  IF ~hv.ok THEN Fail(hv.err)
             ELSE LET rest == Summands(g, x, sigma, k + 1)
                  IN  IF ~rest.ok THEN rest
                      ELSE Ok(<<Dot(hv.val, col)>> \o rest.val)

\* one whole call drift(f, Theta, state, mu, sigma): the value returned (in
\* halves) or the exception raised
drift(g, x, mu, sigma) ==
    LET fo == jvp(g, x, mu)
    IN  IF ~fo.ok THEN Fail(fo.err)
        ELSE LET so == Summands(g, x, sigma, 0)
             IN  IF ~so.ok THEN Fail(so.err)
                 ELSE Ok(EdVof(fo.val, so.val))

\* the mutant of dynamics: the transposition is forgotten
dynamics_NoT(x) ==
    [mu    |-> [k \in 1..Len(x) |-> -(x[k] \div 20)],
     sigma |-> [j \in 1..n_shocks |-> x]]

\* dynamics(x): mu = -0.05 * x (exact on the multiples of 20 the model
\* draws), sigma = np.array([x] * n_shocks).T
dynamics(x) ==
    [mu    |-> [k \in 1..Len(x) |-> -(x[k] \div 20)],
     sigma |-> Transpose([j \in 1..n_shocks |-> x])]

\* ---------------------------------------------------------------- inputs

StateVals == {-1, 2}
MuVals == {-1, 2}
SigmaVals == {-1, 2}
BatchVals == {-20, 40}

Dims == 1..MaxN
ColCounts == {m \in (n_shocks - 1)..(n_shocks + 1) : m >= 1}

\* r x m matrices: column j is j times a vector c, or every column is c
SigmaSet(r, m) ==
    {[a \in 1..r |-> [j \in 1..m |-> c[a] * j]] : c \in [1..r -> SigmaVals]} \cup
    {[a \in 1..r |-> [j \in 1..m |-> c[a]]] : c \in [1..r -> SigmaVals]}

BatchFuns == {<<"halfsq">>, <<"cube">>, <<"halfsq", "sqsum">>, <<"posquad">>,
              <<"fwdonly">>}

\* -------------------------------------------------- one call of drift

\* the locals of a call before its first statement
Entry ==
    /\ pc = "call"
    /\ i = 0
    /\ first_order = 0
    /\ terms = <<>>
    /\ EdV = <<>>
    /\ err = "none"
    /\ evals = <<>>
    /\ cols = <<>>

\* drift is called once, on any function, state, drift vector and diffusion
\* matrix
Init ==
    /\ f \in Funs
    /\ \E n \in Dims : state \in [1..n -> StateVals]
    /\ \E d \in Dims : mustate \in [1..d -> MuVals]
    /\ \E r \in Dims : \E m \in ColCounts : sigmastate \in SigmaSet(r, m)
    /\ Entry
    /\ batch = <<>>
    /\ pending = {}
    /\ cur = 0
    /\ results = <<>>

\* first_order = jvp(f_flat, (state,), (mustate,))[1]
FirstOrder ==
    /\ pc = "call"
    /\ LET r == jvp(f, state, mustate)
       IN  IF r.ok
           THEN /\ first_order' = r.val
                /\ evals' = Append(evals, "jvp")
                /\ pc' = "loop"
                /\ err' = err
           ELSE /\ pc' = "failed"
                /\ err' = r.err
                /\ UNCHANGED <<first_order, evals>>
    /\ UNCHANGED <<f, state, mustate, sigmastate, i, terms, EdV, cols,
                   batch, pending, cur, results>>

\* one pass of the list comprehension:
\* hvp(f_flat, state, sigmastate.T[i]) @ sigmastate.T[i]
SecondOrder ==
    /\ pc = "loop"
    /\ i < n_shocks
    /\ LET col == Column(sigmastate, i)
           r   == hvp(f, state, col)
       IN  /\ cols' = Append(cols, i)
           /\ IF r.ok
              THEN /\ terms' = Append(terms, Dot(r.val, col))
                   /\ evals' = Append(evals, "hvp")
                   /\ i' = i + 1
                   /\ UNCHANGED <<pc, err>>
              ELSE /\ pc' = "failed"
                   /\ err' = r.err
                   /\ UNCHANGED <<terms, evals, i>>
    /\ UNCHANGED <<f, state, mustate, sigmastate, first_order, EdV,
                   batch, pending, cur, results>>

\* second_order = np.sum(np.array([...])); EdV = first_order + 0.5 *
\* second_order; return EdV
Return ==
    /\ pc = "loop"
    /\ i >= n_shocks
    /\ EdV' = <<EdVof(first_order, terms)>>
    /\ pc' = "done"
    /\ UNCHANGED <<f, state, mustate, sigmastate, i, first_order, terms, err,
                   evals, cols, batch, pending, cur, results>>

Next == FirstOrder \/ SecondOrder \/ Return

Spec == Init /\ [][Next]_vars

\* --------------------------------------------------------- compute_Edf

\* compute_Edf(x) is called on a batch of states of one dimension
InitBatch ==
    /\ f \in BatchFuns
    /\ \E n \in Dims : \E k \in 1..MaxBatch :
          /\ batch \in [1..k -> [1..n -> BatchVals]]
          /\ pending = 1..k
          /\ results = [j \in 1..k |-> <<>>]
    /\ cur = 0
    /\ state = <<>>
    /\ mustate = <<>>
    /\ sigmastate = <<>>
    /\ pc = "idle"
    /\ i = 0
    /\ first_order = 0
    /\ terms = <<>>
    /\ EdV = <<>>
    /\ err = "none"
    /\ evals = <<>>
    /\ cols = <<>>

\* the mutant of MapElement: the summands of the element before are kept
MapElement_Stale(k) ==
    /\ pc = "idle"
    /\ k \in pending
    /\ cur' = k
    /\ state' = batch[k]
    /\ mustate' = dynamics(batch[k]).mu
    /\ sigmastate' = dynamics(batch[k]).sigma
    /\ pc' = "call"
    /\ i' = 0
    /\ first_order' = 0
    /\ EdV' = <<>>
    /\ evals' = <<>>
    /\ cols' = <<>>
    /\ UNCHANGED <<f, err, batch, pending, results, terms>>

\* vmap applies the body of compute_Edf to element k of the batch, in no
\* particular order: mu, sigma = dynamics(x), then the call drift(f, Theta, x,
\* mu, sigma) starts with fresh locals
MapElement(k) ==
    /\ pc = "idle"
    /\ k \in pending
    /\ cur' = k
    /\ state' = batch[k]
    /\ mustate' = dynamics(batch[k]).mu
    /\ sigmastate' = dynamics(batch[k]).sigma
    /\ pc' = "call"
    /\ i' = 0
    /\ first_order' = 0
    /\ terms' = <<>>
    /\ EdV' = <<>>
    /\ evals' = <<>>
    /\ cols' = <<>>
    /\ UNCHANGED <<f, err, batch, pending, results>>

\* return EdV: the element's value takes its place in the output array
StoreElement ==
    /\ pc = "done"
    /\ cur # 0
    /\ results' = [results EXCEPT ![cur] = EdV]
    /\ pending' = pending \ {cur}
    /\ cur' = 0
    /\ pc' = "idle"
    /\ UNCHANGED <<f, state, mustate, sigmastate, i, first_order, terms, EdV,
                   err, evals, cols, batch>>

NextBatch ==
    \/ \E k \in 1..MaxBatch : MapElement(k)
    \/ FirstOrder
    \/ SecondOrder
    \/ Return
    \/ StoreElement

SpecBatch == InitBatch /\ [][NextBatch]_vars

\* ------------------------------------------------ closed-form reference

(***************************************************************************)
(* The analytic side of the claims: the gradient and the full Hessian of   *)
(* each term, and Ito's formula written with them.  drift never uses       *)
(* these; they are what its result is compared with.                       *)
(***************************************************************************)
GradTerm(b, x) ==
    [k \in 1..Len(x) |->
        CASE b = "sum"     -> 1
          [] b = "halfsq"  -> x[k]
          [] b = "sqsum"   -> 2 * SumSeq(x)
          [] b = "cube"    -> 3 * x[k] * x[k]
          [] b = "posquad" -> 2 * x[k]
          [] b = "fwdonly" -> 2 * x[k]]

HessTerm(b, x) ==
    [k \in 1..Len(x) |-> [l \in 1..Len(x) |->
        CASE b = "sum"     -> 0
          [] b = "halfsq"  -> IF k = l THEN 1 ELSE 0
          [] b = "sqsum"   -> 2
          [] b = "cube"    -> IF k = l THEN 6 * x[k] ELSE 0
          [] b = "posquad" -> IF k = l THEN 2 ELSE 0
          [] b = "fwdonly" -> IF k = l THEN 2 ELSE 0]]

Grad(g, x) == [k \in 1..Len(x) |-> SumSeq([t \in 1..Len(g) |-> GradTerm(g[t], x)[k]])]

Hess(g, x) ==
    [k \in 1..Len(x) |-> [l \in 1..Len(x) |->
        SumSeq([t \in 1..Len(g) |-> HessTerm(g[t], x)[k][l]])]]

\* the number of columns of a matrix
NCols(M) == Len(M[1])

\* trace(sigma^T H sigma) for an n x n matrix H and an n x m matrix sigma
TraceForm(H, sigma) ==
    SumSeq([j \in 1..NCols(sigma) |->
        SumSeq([k \in 1..Len(sigma) |->
            SumSeq([l \in 1..Len(sigma) |-> sigma[k][j] * H[k][l] * sigma[l][j]])])])

\* twice  grad f(x) . mu + 1/2 trace(sigma^T Hf(x) sigma)
Ito2(g, x, mu, sigma) == 2 * Dot(Grad(g, x), mu) + TraceForm(Hess(g, x), sigma)

\* the sum of the squares of every entry of a matrix
SumSquares(M) ==
    SumSeq([k \in 1..Len(M) |-> SumSeq([j \in 1..NCols(M) |-> M[k][j] * M[k][j]])])

\* the shapes drift's contract asks for
DimsOk == Len(mustate) = Len(state) /\ Len(sigmastate) = Len(state)

\* f can be evaluated and differentiated twice at the state
Total == Raises(f, state, "jvp") = "none" /\ Raises(f, state, "hvp") = "none"

\* the exception f raises in the evaluations drift makes of it: the jvp is
\* reached when mustate has the state's shape, the first hvp when the jvp
\* returned and the columns of sigmastate have the state's shape
FRaises ==
    IF Len(mustate) # Len(state) THEN "none"
    ELSE IF Raises(f, state, "jvp") # "none" THEN Raises(f, state, "jvp")
    ELSE IF Len(sigmastate) # Len(state) THEN "none"
    ELSE Raises(f, state, "hvp")

\* ---------------------------------------------------------------- claims

\* C1: whenever drift returns, the value is grad f(x).mu + 1/2 trace(sigma^T
\* Hf(x) sigma), for every f, state, drift vector and n x m diffusion matrix.
C1_ItoFormula ==
    pc = "done" => EdV = <<Ito2(f, state, mustate, sigmastate)>>

\* C2: a call whose drift vector or diffusion matrix does not have the state's
\* dimension never returns, and when its failure is reported it is the shape
\* failure and no derivative has been evaluated (stated for an f that itself
\* raises nothing, so that the failure can only be the dimension mismatch).
C2_MismatchBeforeDerivatives ==
    (~DimsOk /\ Total) =>
        /\ pc # "done"
        /\ pc = "failed" => (err = "ShapeError" /\ evals = <<>>)

\* C4: the number of derivative evaluations of a call that returns is one jvp
\* plus one Hessian-vector product per column of the diffusion matrix passed
\* in, whatever the state dimension.
C4_EvalsPerColumn ==
    pc = "done" => Len(evals) = 1 + NCols(sigmastate)

\* C5: for f(x) = 1/2 Sum x_k^2 drift returns x.mu + 1/2 trace(sigma^T sigma),
\* x.mu plus half the sum of the squares of every entry of sigma.
C5_HalfSquares ==
    (f = <<"halfsq">> /\ pc = "done") =>
        EdV = <<2 * Dot(state, mustate) + SumSquares(sigmastate)>>

\* C9: the second-order term has one summand per column of the diffusion
\* matrix: the loop asks for the indices 0 .. m-1, each once, and no other.
C9_OneSummandPerColumn ==
    pc = "done" =>
        /\ cols = [j \in 1..NCols(sigmastate) |-> j - 1]
        /\ Len(terms) = NCols(sigmastate)

\* C6: for f(x) = Sum x_k a call with the contract's shapes always returns,
\* the second-order term is zero and the value is Sum mu_k, whatever sigma is.
C6_SumOfDrift ==
    f = <<"sum">> =>
        /\ DimsOk => pc # "failed"
        /\ \A k \in 1..Len(terms) : terms[k] = 0
        /\ pc = "done" => EdV = <<2 * SumSeq(mustate)>>

C6_Witness ==
    /\ f = <<"sum">>
    /\ pc = "done"
    /\ NCols(sigmastate) # n_shocks
    /\ Len(state) > 1
    /\ EdV # <<0>>

\* C7: drift is linear in f: the value returned for f1 + f2 is the sum of the
\* values drift returns for f1 and for f2 on the same state, drift and
\* diffusion.
C7_Linear ==
    (pc = "done" /\ Len(f) = 2) =>
        LET r1 == drift(<<f[1]>>, state, mustate, sigmastate)
            r2 == drift(<<f[2]>>, state, mustate, sigmastate)
        IN  r1.ok /\ r2.ok /\ EdV = <<r1.val + r2.val>>

C7_Witness ==
    /\ pc = "done"
    /\ Len(f) = 2
    /\ drift(<<f[1]>>, state, mustate, sigmastate).val # 0
    /\ drift(<<f[2]>>, state, mustate, sigmastate).val # 0
    /\ drift(<<f[1]>>, state, mustate, sigmastate).val
         # drift(<<f[2]>>, state, mustate, sigmastate).val

\* C8: when f raises in an evaluation drift makes of it (in the jvp or in a
\* Hessian-vector product), the call never returns a value, goes no further
\* than the failing evaluation, and ends with the exception f raised.
C8_FailurePropagates ==
    FRaises # "none" =>
        /\ pc # "done"
        /\ EdV = <<>>
        /\ terms = <<>>
        /\ pc = "failed" => err = FRaises

C8_Witness ==
    /\ pc = "failed"
    /\ err = "ReverseModeError"
    /\ evals = <<"jvp">>
    /\ first_order # 0

\* one single-state invocation: dynamics(x), then drift on what it returned
Single(x) == drift(f, x, dynamics(x).mu, dynamics(x).sigma)

\* C3: whatever the order in which the batch is processed, the value stored
\* for an element is the one a single invocation of dynamics and drift on that
\* element returns, an element is stored exactly when it has been processed,
\* and a failing batch fails with the failure of the element's single
\* invocation.
C3_BatchIsMap ==
    /\ \A k \in 1..Len(batch) :
          IF k \in pending
          THEN results[k] = <<>>
          ELSE Single(batch[k]).ok /\ results[k] = <<Single(batch[k]).val>>
    /\ (pc = "failed" /\ cur # 0) =>
          (~Single(batch[cur]).ok /\ err = Single(batch[cur]).err)

C3_Witness ==
    /\ pending = {}
    /\ Len(batch) >= 2
    /\ results[1] # results[2]
    /\ results[2] # <<0>>
    /\ Len(batch[1]) >= 2

\* C10: in every call compute_Edf makes, the drift vector has the state's
\* dimension, the diffusion matrix has one row per state component and
\* n_shocks columns, each equal to the state; no shape failure occurs, and a
\* call that returns has read each column of the matrix once.
C10_DynamicsShapes ==
    cur # 0 =>
        /\ Len(mustate) = Len(state)
        /\ Len(sigmastate) = Len(state)
        /\ \A k \in 1..Len(sigmastate) : Len(sigmastate[k]) = n_shocks
        /\ \A j \in 1..n_shocks : Transpose(sigmastate)[j] = state
        /\ err # "ShapeError"
        /\ pc = "done" => cols = [j \in 1..NCols(sigmastate) |-> j - 1]

C10_Witness ==
    /\ cur # 0
    /\ pc = "done"
    /\ Len(state) = MaxN
    /\ Len(cols) = n_shocks
    /\ state[1] # state[MaxN]

=============================================================================
